---- MODULE Spec2Model ----
(***************************************************************************)
(* Model of the catalog cache of YifferComicsBot (src/src/yiffer/yiffer.py) *)
(* and of the lookups that src/src/bot.py makes on it.                      *)
(*                                                                         *)
(* The SQLite file is the variable db (the committed rows, which is what   *)
(* every connection other than the writing one reads); tx is the open      *)
(* transaction of save_to_db's connection.  update_db is modelled          *)
(* statement by statement so that a failure or a stop between two INSERTs  *)
(* and a reader between two INSERTs are steps of the model.                *)
(*                                                                         *)
(* Python values: None is the empty sequence and any other optional value  *)
(* x is <<x>>, so that "is None" is a comparison of sequences.             *)
(*                                                                         *)
(* Columns that update_db copies verbatim from the listing and that no     *)
(* query of the module reads in a condition (category, tag, artist, state, *)
(* created, updated) are left out of the rows.                             *)
(***************************************************************************)
EXTENDS Integers, Sequences, FiniteSets, TLC

VARIABLES
    db,           \* committed content of comics.db: [comics, pages, keywords]
    tx,           \* rows INSERTed by save_to_db's connection and not yet committed
    pc,           \* position of update_db
    listing_status, \* status code of the last answer of the listing endpoint
    comics,       \* update_db's local `comics`: the result of get_all_comics()
    i,            \* index of basic_comic_data in `comics` (1-based)
    j,            \* index of the page / keyword save_to_db is inserting
    comic_data,   \* the ComicData being saved (None outside save_to_db)
    fetched,      \* the detail requests this cycle issued, in order: the comic's name,
                  \* the pages the store held for it and the pages the listing reported
    error,        \* the exception that ended update_db ("none" when none did)
    last_listing, \* the listing update_db last returned from, while no cycle has
                  \* started since (None otherwise)
    sameListing,  \* the running cycle got the listing the cycle before it returned from
    reply         \* outcome of the last read operation (load/search/max page)

vars == <<db, tx, pc, listing_status, comics, i, j, comic_data, fetched, error,
         last_listing, sameListing, reply>>

-----------------------------------------------------------------------------
(* Bounds of the model *)

\* largest numberOfPages a listing reports
MaxPages == 2
\* largest number of comics in a store drawn for the browsing specification
MaxStored == 26

\* the only status code the client accepts
HTTP_OK == 200
\* status codes of a failed request
FailureStatus == {404, 503}
\* the page size hard-coded in get_max_page_number
PAGE_SIZE == 10

\* the ids the remote service has assigned
Ids == {1, 2}
\* comic names; "2" is a name that is also the text of an id
Names == {"A", "2"}
\* a name no listing ever carries
AbsentName == "Z"
Keywords == {"feral", "mm"}

None == <<>>
Some(x) == <<x>>

-----------------------------------------------------------------------------
(* URL templates *)

\* "{page_number:03d}": at least three decimal digits, zero padded
Pad3(n) == IF n < 10 THEN "00" \o ToString(n)
           ELSE IF n < 100 THEN "0" \o ToString(n)
           ELSE ToString(n)

get_comic_thumbnail_by_name(name) == <<"comics", name, "thumbnail.webp">>

get_comic_page_by_name_and_page(name, page) == <<"comics", name, Pad3(page) \o ".jpg">>

get_comic_pages_by_name_and_pages(name, pages) ==
    [p \in 1..pages |-> get_comic_page_by_name_and_page(name, p)]

-----------------------------------------------------------------------------
(* The store: create_database's three tables *)

EmptyDb == [comics |-> {}, pages |-> <<>>, keywords |-> <<>>]

NoTx == [comics |-> <<>>, pages |-> <<>>, keywords |-> <<>>]

SeqToSet(s) == {s[k] : k \in 1..Len(s)}

\* (mutant) an INSERT on a connection in autocommit mode: the row is in the
\* file at once
exec_insert_autocommit(d, t, table, row) ==
    [db |-> IF table = "comics" THEN [d EXCEPT !.comics = @ \cup {row}]
            ELSE [d EXCEPT ![table] = Append(@, row)],
     tx |-> t]

\* an INSERT under Python's default (legacy) transaction control: the
\* connection opens a transaction before the first INSERT, so the row stays
\* in the connection's transaction until commit()
exec_insert(d, t, table, row) ==
    [db |-> d, tx |-> [t EXCEPT ![table] = Append(@, row)]]

\* (mutant) a commit that keeps only the rows of the last table written
commit_keywords_only(d, t) ==
    [comics   |-> d.comics,
     pages    |-> d.pages,
     keywords |-> d.keywords \o t.keywords]

\* conn.commit(): the transaction's rows become the file's rows
commit(d, t) ==
    [comics   |-> d.comics \cup SeqToSet(t.comics),
     pages    |-> d.pages \o t.pages,
     keywords |-> d.keywords \o t.keywords]

\* (mutant) a comics table whose id column carries no UNIQUE constraint
ViolatesUniqueId_never(d, t, id) == FALSE

\* id INTEGER UNIQUE PRIMARY KEY: does inserting a row with this id fail?
ViolatesUniqueId(d, t, id) ==
    \E r \in d.comics \cup SeqToSet(t.comics) : r.id = id

-----------------------------------------------------------------------------
(* Remote Catalog Client *)

BasicComicData == [id : Ids, name : Names, numberOfPages : 0..MaxPages]

\* the listings the remote service may answer with: any comics in any order,
\* each id (the remote's key) at most once; two ids may carry the same name
RECURSIVE SeqsUpTo(_, _)
SeqsUpTo(S, n) ==
    IF n = 0 THEN {<<>>}
    ELSE LET shorter == SeqsUpTo(S, n - 1)
         IN  shorter \cup {Append(s, x) : s \in {t \in shorter : Len(t) = n - 1}, x \in S}

Listings ==
    {l \in SeqsUpTo(BasicComicData, Cardinality(Ids)) :
        \A a, b \in 1..Len(l) : l[a].id = l[b].id => a = b}

ListingResponses ==
    [status_code : {HTTP_OK}, body : Listings]
        \cup [status_code : FailureStatus, body : {<<>>}]

\* what the detail endpoint may say about a comic beyond the listing
DetailSamples ==
    { [userRating |-> None,    keywords |-> <<>>],
      [userRating |-> Some(5), keywords |-> <<"mm", "feral">>] }

DetailResponses(basic) ==
    { [status_code |-> HTTP_OK,
       body |-> [name |-> basic.name, id |-> basic.id,
                 numberOfPages |-> basic.numberOfPages,
                 userRating |-> s.userRating, keywords |-> s.keywords]] : s \in DetailSamples }
        \cup { [status_code |-> c, body |-> <<>>] : c \in FailureStatus }

\* (mutant) the body is parsed whatever the status
get_all_comics_any_status(response) == Some(response.body)

\* the list of BasicComicData, or None unless the status is 200
get_all_comics(response) ==
    IF response.status_code = HTTP_OK THEN Some(response.body) ELSE None

\* the DetailedComicData, or None unless the status is 200
get_comic_data_by_name(response) ==
    IF response.status_code = HTTP_OK
    THEN Some([name |-> response.body.name, numberOfPages |-> response.body.numberOfPages,
               id |-> response.body.id, rating |-> response.body.userRating,
               keywords |-> response.body.keywords])
    ELSE None

-----------------------------------------------------------------------------
(* ComicData *)

\* ComicData.from_basic_and_detailed; detailed is a DetailedComicData (not None)
from_basic_and_detailed(basic, detailed) ==
    [id            |-> basic.id,
     name          |-> basic.name,
     thumbnail     |-> get_comic_thumbnail_by_name(basic.name),
     numberOfPages |-> basic.numberOfPages,
     userRating    |-> detailed.rating,
     keywords      |-> detailed.keywords,
     pages         |-> get_comic_pages_by_name_and_pages(basic.name, basic.numberOfPages)]

\* the three kinds of row save_to_db inserts for a ComicData
ComicRow(c) ==
    [id |-> c.id, name |-> c.name, thumbnail |-> c.thumbnail, userRating |-> c.userRating]

PageRow(c, k) == [comic_name |-> c.name, page_number |-> k, page_url |-> c.pages[k]]

KeywordRow(c, k) == [comic_id |-> c.id, keyword |-> c.keywords[k]]

\* rows of the pages table with comic_name = name, in table order
PagesOf(d, name) == SelectSeq(d.pages, LAMBDA r : r.comic_name = name)

\* rows of the keywords table with comic_id = id, in table order
KeywordsOfId(d, id) == SelectSeq(d.keywords, LAMBDA r : r.comic_id = id)

\* ORDER BY page_number of a sequence of page rows (insertion sort, stable)
RECURSIVE OrderByPageNumber(_)
OrderByPageNumber(rows) ==
    IF rows = <<>> THEN <<>>
    ELSE LET m == CHOOSE k \in 1..Len(rows) :
                     /\ \A l \in 1..Len(rows) : rows[k].page_number <= rows[l].page_number
                     /\ \A l \in 1..(k - 1) : rows[l].page_number > rows[k].page_number
             rest == [l \in 1..(Len(rows) - 1) |-> IF l < m THEN rows[l] ELSE rows[l + 1]]
         IN  <<rows[m]>> \o OrderByPageNumber(rest)

\* fetchone() of SELECT * FROM comics WHERE name=?: the first matching row in
\* rowid order (id is the rowid), or None
FetchOneByName(d, comic_name) ==
    LET rows == {r \in d.comics : r.name = comic_name}
    IN  IF rows = {} THEN None
        ELSE Some(CHOOSE r \in rows : \A q \in rows : r.id <= q.id)

\* ComicData.load_from_db: [raised, value]; comic_data[0] of None raises TypeError
load_from_db(d, comic_name) ==
    LET comic_row == FetchOneByName(d, comic_name)
        page_rows == OrderByPageNumber(PagesOf(d, comic_name))
        pages     == [k \in 1..Len(page_rows) |-> page_rows[k].page_url]
    IN  IF comic_row = None
        THEN [raised |-> "TypeError", value |-> None]
        ELSE LET r     == comic_row[1]
                 kwRows == KeywordsOfId(d, r.id)
             IN  [raised |-> "none",
                  value  |-> Some([id            |-> r.id,
                                   name          |-> r.name,
                                   thumbnail     |-> r.thumbnail,
                                   numberOfPages |-> Len(pages),
                                   userRating    |-> r.userRating,
                                   keywords      |-> [k \in 1..Len(kwRows) |-> kwRows[k].keyword],
                                   pages         |-> pages])]

\* an integer bound to "name=?" is compared as text (the column has TEXT affinity)
BindToText(v) == ToString(v)

\* SELECT DISTINCT comic_id FROM keywords WHERE keyword IN (...): the set of ids
MatchingComicIds(d, keywords) ==
    {r.comic_id : r \in {q \in SeqToSet(d.keywords) : q.keyword \in SeqToSet(keywords)}}

\* the orders in which a result set S may be returned (SQL leaves it open)
Orderings(S) ==
    {s \in [1..Cardinality(S) -> S] : \A a, b \in 1..Cardinality(S) : s[a] = s[b] => a = b}

\* Python's seq[:limit] for limit >= 0
Take(s, limit) == IF limit >= Len(s) THEN s ELSE SubSeq(s, 1, limit)

\* ComicData.search_by_keywords, given the order the ids came back in: each id
\* is passed to load_from_db as the comic's name
search_by_keywords(d, ids, limit) ==
    LET matching_comic_ids == Take(ids, limit)
        loaded == [k \in 1..Len(matching_comic_ids) |->
                      load_from_db(d, BindToText(matching_comic_ids[k]))]
    IN  IF \E k \in 1..Len(loaded) : loaded[k].raised # "none"
        THEN [raised |-> "TypeError", value |-> <<>>]
        ELSE [raised |-> "none", value |-> [k \in 1..Len(loaded) |-> loaded[k].value[1]]]

\* Python's round(): to the nearest integer, a tie going to the even one
round_half_even(num, den) ==
    LET q == num \div den
        r == num % den
    IN  IF 2 * r > den \/ (2 * r = den /\ q % 2 = 1) THEN q + 1 ELSE q

\* ComicData.get_max_page_number
get_max_page_number(d) == round_half_even(Cardinality(d.comics) - 1, PAGE_SIZE)

-----------------------------------------------------------------------------
(* update_db, statement by statement *)

NoReply == [op |-> "none", args |-> <<>>, raised |-> "none", value |-> <<>>]

TypeOK ==
    /\ pc \in {"idle", "loop", "insert_comic", "insert_pages", "insert_keywords",
               "commit", "returned", "raised", "stopped"}
    /\ error \in {"none", "TypeError", "AttributeError", "IntegrityError", "OperationalError"}
    /\ sameListing \in BOOLEAN
    /\ i \in 1..(Cardinality(Ids) + 1)
    /\ j \in 1..(MaxPages + 1)
    /\ listing_status \in {HTTP_OK} \cup FailureStatus

Init ==
    /\ db = EmptyDb
    /\ tx = NoTx
    /\ pc = "idle"
    /\ listing_status = HTTP_OK
    /\ comics = None
    /\ i = 1
    /\ j = 1
    /\ comic_data = None
    /\ fetched = <<>>
    /\ error = "none"
    /\ last_listing = None
    /\ sameListing = FALSE
    /\ reply = NoReply

\* update_db is not running: never started, returned, raised, or the process stopped
NotRunning == pc \in {"idle", "returned", "raised", "stopped"}

InSave == pc \in {"insert_comic", "insert_pages", "insert_keywords", "commit"}

\* the statement save_to_db reaches after the comic row / after page or keyword k
AfterInsert(c, table, k) ==
    IF table = "comics" /\ Len(c.pages) >= 1 THEN "insert_pages"
    ELSE IF table = "pages" /\ k < Len(c.pages) THEN "insert_pages"
    ELSE IF table \in {"comics", "pages"} /\ Len(c.keywords) >= 1 THEN "insert_keywords"
    ELSE IF table = "keywords" /\ k < Len(c.keywords) THEN "insert_keywords"
    ELSE "commit"

\* (mutant) the test with <= for <
NeedsStore_or_equal(existing_pages, basic) == Len(existing_pages) <= basic.numberOfPages

\* the test of line 367: the store has fewer pages than the listing reports
NeedsStore(existing_pages, basic) == Len(existing_pages) < basic.numberOfPages

\* lines 344-357: fetch the listing, open the connection, enter the loop;
\* iterating over None raises TypeError
Start ==
    /\ NotRunning
    /\ reply = NoReply
    /\ \E response \in ListingResponses :
         LET result == get_all_comics(response)
         IN  /\ listing_status' = response.status_code
             /\ sameListing' = (result # None /\ result = last_listing)
             /\ IF result = None
                THEN pc' = "raised" /\ error' = "TypeError" /\ comics' = None
                ELSE pc' = "loop" /\ error' = "none" /\ comics' = result
    /\ i' = 1
    /\ j' = 1
    /\ comic_data' = None
    /\ fetched' = <<>>
    /\ tx' = NoTx
    /\ last_listing' = None
    /\ UNCHANGED <<db, reply>>

\* lines 357-367 and 375 for a comic the store already holds enough pages of
SkipComic ==
    /\ pc = "loop"
    /\ reply = NoReply
    /\ i <= Len(comics[1])
    /\ ~NeedsStore(PagesOf(db, comics[1][i].name), comics[1][i])
    /\ i' = i + 1
    /\ UNCHANGED <<db, tx, pc, listing_status, comics, j, comic_data, fetched, error,
                   last_listing, sameListing, reply>>

\* lines 357-370 and 125 for a comic that is new or has grown: the detail
\* request, then from_basic_and_detailed, which reads detailed.rating and so
\* raises AttributeError when the request returned None
FetchComic ==
    /\ pc = "loop"
    /\ reply = NoReply
    /\ i <= Len(comics[1])
    /\ NeedsStore(PagesOf(db, comics[1][i].name), comics[1][i])
    /\ \E response \in DetailResponses(comics[1][i]) :
         LET detailed == get_comic_data_by_name(response)
         IN  IF detailed = None
             THEN /\ pc' = "raised"
                  /\ error' = "AttributeError"
                  /\ comic_data' = None
                  /\ comics' = None
                  /\ i' = 1
             ELSE /\ pc' = "insert_comic"
                  /\ error' = error
                  /\ comic_data' = Some(from_basic_and_detailed(comics[1][i], detailed[1]))
                  /\ UNCHANGED <<comics, i>>
    /\ fetched' = Append(fetched, [name     |-> comics[1][i].name,
                                   existing |-> Len(PagesOf(db, comics[1][i].name)),
                                   reported |-> comics[1][i].numberOfPages])
    /\ j' = 1
    /\ UNCHANGED <<db, tx, listing_status, last_listing, sameListing, reply>>

\* lines 129-131: INSERT INTO comics; a second row with the same id violates
\* the UNIQUE PRIMARY KEY, the exception leaves save_to_db and update_db, and
\* the connection is dropped without commit
InsertComic ==
    /\ pc = "insert_comic"
    /\ reply = NoReply
    /\ IF ViolatesUniqueId(db, tx, comic_data[1].id)
       THEN /\ pc' = "raised"
            /\ error' = "IntegrityError"
            /\ tx' = NoTx
            /\ db' = db
            /\ comic_data' = None
            /\ comics' = None
            /\ i' = 1
       ELSE LET r == exec_insert(db, tx, "comics", ComicRow(comic_data[1]))
            IN  /\ db' = r.db
                /\ tx' = r.tx
                /\ pc' = AfterInsert(comic_data[1], "comics", 0)
                /\ UNCHANGED <<error, comic_data, comics, i>>
    /\ j' = 1
    /\ UNCHANGED <<listing_status, fetched, last_listing, sameListing, reply>>

\* lines 134-135: INSERT INTO pages for page j
InsertPage ==
    /\ pc = "insert_pages"
    /\ reply = NoReply
    /\ LET r == exec_insert(db, tx, "pages", PageRow(comic_data[1], j))
       IN  db' = r.db /\ tx' = r.tx
    /\ pc' = AfterInsert(comic_data[1], "pages", j)
    /\ j' = IF pc' = "insert_pages" THEN j + 1 ELSE 1
    /\ UNCHANGED <<listing_status, comics, i, comic_data, fetched, error, last_listing,
                   sameListing, reply>>

\* lines 138-139: INSERT INTO keywords for keyword j
InsertKeyword ==
    /\ pc = "insert_keywords"
    /\ reply = NoReply
    /\ LET r == exec_insert(db, tx, "keywords", KeywordRow(comic_data[1], j))
       IN  db' = r.db /\ tx' = r.tx
    /\ pc' = AfterInsert(comic_data[1], "keywords", j)
    /\ j' = IF pc' = "insert_keywords" THEN j + 1 ELSE 1
    /\ UNCHANGED <<listing_status, comics, i, comic_data, fetched, error, last_listing,
                   sameListing, reply>>

\* lines 141-142 and 373-375: commit, close, note the comic, next comic
Commit ==
    /\ pc = "commit"
    /\ reply = NoReply
    /\ db' = commit(db, tx)
    /\ tx' = NoTx
    /\ pc' = "loop"
    /\ i' = i + 1
    /\ j' = 1
    /\ comic_data' = None
    /\ UNCHANGED <<listing_status, comics, fetched, error, last_listing, sameListing, reply>>

\* lines 377-381: the listing is exhausted, update_db returns
Return ==
    /\ pc = "loop"
    /\ reply = NoReply
    /\ i > Len(comics[1])
    /\ pc' = "returned"
    /\ last_listing' = comics
    /\ comics' = None
    /\ i' = 1
    /\ UNCHANGED <<db, tx, listing_status, j, comic_data, fetched, error, sameListing, reply>>

\* a statement of save_to_db fails in the store (disk full, database locked):
\* sqlite3.OperationalError leaves update_db, nothing was committed
StoreFailure ==
    /\ InSave
    /\ reply = NoReply
    /\ pc' = "raised"
    /\ error' = "OperationalError"
    /\ tx' = NoTx
    /\ i' = 1
    /\ j' = 1
    /\ comic_data' = None
    /\ comics' = None
    /\ UNCHANGED <<db, listing_status, fetched, last_listing, sameListing, reply>>

\* the process stops while update_db runs; the open transaction is never
\* committed and the journal rolls it back
Stop ==
    /\ pc = "loop" \/ InSave
    /\ reply = NoReply
    /\ pc' = "stopped"
    /\ tx' = NoTx
    /\ i' = 1
    /\ j' = 1
    /\ comic_data' = None
    /\ comics' = None
    /\ UNCHANGED <<db, listing_status, fetched, error, last_listing, sameListing, reply>>

-----------------------------------------------------------------------------
(* Reads, each through a connection of its own (it sees db, never tx).     *)
(* A read is one step, at any point of update_db; reply holds its outcome  *)
(* until the handler has delivered it, which is the next step.             *)

WriterVars == <<db, tx, pc, listing_status, comics, i, j, comic_data, fetched, error,
                last_listing, sameListing>>

\* bot.py lines 52 and 71: ComicData.load_from_db(comic_name)
LoadFromDb ==
    /\ reply = NoReply
    /\ \E comic_name \in Names \cup {AbsentName} :
        LET r == load_from_db(db, comic_name)
        IN  /\ reply' = [op |-> "load_from_db", args |-> <<comic_name>>,
                         raised |-> r.raised, value |-> r.value]
            /\ UNCHANGED WriterVars

\* the keyword lists and limits searched with
KeywordQueries == {<<"feral">>, <<"mm", "feral">>}
Limits == {1, 2}

\* ComicData.search_by_keywords(keywords, limit)
SearchByKeywords ==
    /\ reply = NoReply
    /\ \E keywords \in KeywordQueries, limit \in Limits :
        \E ids \in Orderings(MatchingComicIds(db, keywords)) :
            LET r == search_by_keywords(db, ids, limit)
            IN  /\ reply' = [op |-> "search_by_keywords", args |-> <<keywords, limit>>,
                             raised |-> r.raised, value |-> r.value]
                /\ UNCHANGED WriterVars

\* bot.py lines 90 and 103: ComicData.get_max_page_number()
GetMaxPageNumber ==
    /\ reply = NoReply
    /\ reply' = [op |-> "get_max_page_number", args |-> <<>>,
                 raised |-> "none", value |-> <<get_max_page_number(db)>>]
    /\ UNCHANGED WriterVars

\* the handler hands its answer to the chat and returns
Deliver ==
    /\ reply # NoReply
    /\ reply' = NoReply
    /\ UNCHANGED WriterVars

Next ==
    \/ Start
    \/ SkipComic
    \/ FetchComic
    \/ InsertComic
    \/ InsertPage
    \/ InsertKeyword
    \/ Commit
    \/ Return
    \/ StoreFailure
    \/ Stop
    \/ LoadFromDb
    \/ SearchByKeywords
    \/ GetMaxPageNumber
    \/ Deliver

Spec == Init /\ [][Next]_vars

-----------------------------------------------------------------------------
(* Browsing a populated store: the reads applied to stores of 0..MaxStored  *)
(* comics, as update_db leaves them after syncing comics 1..n of one page   *)
(* each (comic 1 carrying keywords).                                        *)

StoredComic(n) ==
    from_basic_and_detailed(
        [id |-> n, name |-> ToString(n), numberOfPages |-> 1],
        [rating |-> None, keywords |-> IF n = 1 THEN <<"mm", "feral">> ELSE <<>>])

RECURSIVE StoreOf(_)
StoreOf(n) ==
    IF n = 0 THEN EmptyDb
    ELSE LET c == StoredComic(n)
         IN  commit(StoreOf(n - 1),
                    [comics   |-> <<ComicRow(c)>>,
                     pages    |-> [k \in 1..Len(c.pages) |-> PageRow(c, k)],
                     keywords |-> [k \in 1..Len(c.keywords) |-> KeywordRow(c, k)]])

InitBrowse ==
    /\ \E n \in 0..MaxStored : db = StoreOf(n)
    /\ tx = NoTx
    /\ pc = "idle"
    /\ listing_status = HTTP_OK
    /\ comics = None
    /\ i = 1
    /\ j = 1
    /\ comic_data = None
    /\ fetched = <<>>
    /\ error = "none"
    /\ last_listing = None
    /\ sameListing = FALSE
    /\ reply = NoReply

NextBrowse ==
    \/ LoadFromDb
    \/ SearchByKeywords
    \/ GetMaxPageNumber
    \/ Deliver

SpecBrowse == InitBrowse /\ [][NextBrowse]_vars

-----------------------------------------------------------------------------
(* Properties *)

RowCounts(d) == <<Cardinality(d.comics), Len(d.pages), Len(d.keywords)>>

\* the page rows keyed by name carry each of 1..n exactly once and nothing else
PagesAreExactly(d, name, n) ==
    /\ Len(PagesOf(d, name)) = n
    /\ \A k \in 1..n : \E r \in SeqToSet(PagesOf(d, name)) : r.page_number = k

\* the rows one save_to_db of c adds to the store
WithUpsert(d, c) ==
    [comics   |-> d.comics \cup {ComicRow(c)},
     pages    |-> d.pages \o [k \in 1..Len(c.pages) |-> PageRow(c, k)],
     keywords |-> d.keywords \o [k \in 1..Len(c.keywords) |-> KeywordRow(c, k)]]

\* C1: in every store state, the page rows keyed by a stored comic's name are
\* numbered exactly 1..N, each number once, N being the numberOfPages that
\* load_from_db reports for that name.
C1_PagesContiguous ==
    \A r \in db.comics :
        LET loaded == load_from_db(db, r.name)
        IN  /\ loaded.raised = "none"
            /\ PagesAreExactly(db, r.name, loaded.value[1].numberOfPages)

\* C2: once update_db has ended (returned, or raised out of save_to_db's
\* INSERT), every comic it found stored with k >= 1 pages and listed with
\* n > k pages has exactly the page rows 1..n in the store.
C2_GrownComicReplaced ==
    (pc = "returned" \/ (pc = "raised" /\ error = "IntegrityError")) =>
        \A k \in 1..Len(fetched) :
            (fetched[k].existing >= 1 /\ fetched[k].existing < fetched[k].reported)
                => PagesAreExactly(db, fetched[k].name, fetched[k].reported)

\* C3: in a cycle that got the same listing as the cycle that returned just
\* before it, no step changes the number of rows of any of the three tables.
C3_Idempotent ==
    [][sameListing' => RowCounts(db') = RowCounts(db)]_vars

\* a rerun of a listing that names stored comics has returned
C3_Witness ==
    /\ sameListing
    /\ pc = "returned"
    /\ Len(last_listing[1]) = 2
    /\ Cardinality(db.comics) = 2

\* C4: when update_db examines a listed comic of which the store holds at
\* least the reported number of pages, that step issues no detail request and
\* changes no row of any table.
C4_SkipTouchesNothing ==
    [][(/\ pc = "loop"
        /\ i <= Len(comics[1])
        /\ Len(PagesOf(db, comics[1][i].name)) >= comics[1][i].numberOfPages)
          => (fetched' = fetched /\ db' = db /\ tx' = tx /\ pc' \in {"loop", "stopped"})]_vars

\* the second listed comic is reached after the first, already stored, was
\* skipped without a request
C4_Witness ==
    /\ pc = "loop"
    /\ i = 2
    /\ fetched = <<>>
    /\ comics[1][1].numberOfPages >= 1
    /\ Len(PagesOf(db, comics[1][1].name)) = comics[1][1].numberOfPages

\* C5: when the listing request fails (status other than 200) update_db ends
\* by raising, with no detail request made, no transaction open and the store
\* exactly as it was, and nothing changes the store until the next cycle.
C5_ListingFailureAborts ==
    [][listing_status' # HTTP_OK =>
         (/\ pc' = "raised"
          /\ error' = "TypeError"
          /\ fetched' = <<>>
          /\ tx' = NoTx
          /\ db' = db)]_vars

\* a cycle against a populated store has ended on a failed listing request
C5_Witness ==
    /\ listing_status # HTTP_OK
    /\ pc = "raised"
    /\ db.comics # {}

\* C6: when the detail request for a comic fails (no ComicData comes of it),
\* update_db leaves the store alone and goes on with the next listed comic.
C6_DetailFailureSkipsComic ==
    [][(/\ pc = "loop"
        /\ Len(fetched') = Len(fetched) + 1
        /\ comic_data' = None)
          => (pc' = "loop" /\ i' = i + 1 /\ db' = db)]_vars

\* C7: load_from_db of a name that no row of comics carries returns None and
\* raises nothing.
C7_AbsentLookupReturnsNone ==
    (/\ reply.op = "load_from_db"
     /\ \A r \in db.comics : r.name # reply.args[1])
        => (reply.raised = "none" /\ reply.value = None)

\* C8: search_by_keywords(K, limit) raises nothing and returns at most limit
\* distinct comics, each as the store holds it (pages and keywords included)
\* and each with a keyword in K; the result is not empty when limit >= 1 and
\* some stored comic has a keyword in K.
C8_KeywordSearch ==
    reply.op = "search_by_keywords" =>
        LET K     == SeqToSet(reply.args[1])
            limit == reply.args[2]
            found == reply.value
        IN  /\ reply.raised = "none"
            /\ Len(found) <= limit
            /\ \A a, b \in 1..Len(found) : found[a].id = found[b].id => a = b
            /\ \A a \in 1..Len(found) :
                   /\ SeqToSet(found[a].keywords) \cap K # {}
                   /\ \E r \in db.comics :
                        /\ r.id = found[a].id
                        /\ r.name = found[a].name
                        /\ Len(found[a].pages) = Len(PagesOf(db, r.name))
                        /\ Len(found[a].keywords) = Len(KeywordsOfId(db, r.id))
            /\ (limit >= 1 /\ MatchingComicIds(db, reply.args[1]) # {}) => found # <<>>

\* C9: for a store of totalComics >= 1 comics get_max_page_number returns
\* floor((totalComics - 1) / 10).
C9_MaxPageIsFloor ==
    (reply.op = "get_max_page_number" /\ Cardinality(db.comics) >= 1)
        => reply.value[1] = (Cardinality(db.comics) - 1) \div PAGE_SIZE

\* C10: save_to_db is atomic.  The store that other connections read changes
\* only at commit, and then by the comic row, all page rows and all keyword
\* rows of the ComicData at once; while the save runs none of its rows is in
\* that store, and a failure or a stop of the process leaves it as it was.
C10_SaveIsAtomic ==
    /\ [][db' # db => (pc = "commit" /\ db' = WithUpsert(db, comic_data[1]))]_vars
    /\ [][(InSave /\ pc' \in {"raised", "stopped"}) => (db' = db /\ tx' = NoTx)]_vars
    /\ [](pc \in {"insert_pages", "insert_keywords", "commit"}
            => ComicRow(comic_data[1]) \notin db.comics)

\* a reader looked the comic up when all its rows were inserted and none
\* committed, and did not find it
C10_Witness ==
    /\ pc = "commit"
    /\ Len(tx.comics) = 1
    /\ Len(tx.pages) = 2
    /\ Len(tx.keywords) = 2
    /\ reply.op = "load_from_db"
    /\ reply.args = <<comic_data[1].name>>
    /\ reply.raised = "TypeError"

\* s is an initial part of t: the table t holds the rows of s, unchanged, first
IsPrefix(s, t) == Len(s) <= Len(t) /\ SubSeq(t, 1, Len(s)) = s

\* C11: no step deletes or modifies a committed row.  The comics rows stay,
\* the pages and keywords tables are only appended to, and for a comic that
\* is stored the row of its id (userRating with it) and the keyword rows of
\* its id are after the step what they were before it.
C11_RowsOnlyGrow ==
    [][/\ db.comics \subseteq db'.comics
       /\ IsPrefix(db.pages, db'.pages)
       /\ IsPrefix(db.keywords, db'.keywords)
       /\ \A r \in db.comics :
            /\ {q \in db'.comics : q.id = r.id} = {r}
            /\ KeywordsOfId(db', r.id) = KeywordsOfId(db, r.id)
            /\ Len(PagesOf(db', r.name)) >= Len(PagesOf(db, r.name))]_vars

\* a stored comic with keywords was listed with more pages, its detail was
\* fetched again, and the cycle ended with the store holding what it held
C11_Witness ==
    /\ pc = "raised"
    /\ error = "IntegrityError"
    /\ Len(db.keywords) = 2
    /\ Len(fetched) = 1
    /\ fetched[1].existing >= 1
    /\ fetched[1].existing < fetched[1].reported
    /\ Len(PagesOf(db, fetched[1].name)) = fetched[1].existing

====
